---- MODULE Spec2Model ----
(***************************************************************************)
(* Model of the heuristic extraction pipeline of work.py: the attribute    *)
(* resolver (tag_value), the three stages (find_title, find_dates,         *)
(* find_authors), the flattener (store_recursive) and the per-document     *)
(* loop (handle_sample).                                                   *)
(*                                                                         *)
(* Python values are tagged records [t |-> type, v |-> payload]; an        *)
(* exception leaving a call is the value Raise(exception class).           *)
(* Text is a sequence of tokens: a token is a maximal run of characters of *)
(* one kind (a word, a number) or a single separator character.            *)
(***************************************************************************)
EXTENDS Integers, Sequences, FiniteSets, TLC

VARIABLES
    tree,        \* soup: the styled nodes in document order
    args,        \* the arguments of the call under examination
    pc,          \* position of the program
    result,      \* what the call returned or raised
    context,     \* handle_sample's context dict
    structured,  \* handle_sample's structured dict (the Record)
    frame,       \* handle_sample's frame, one row (the Row)
    calls        \* the stage calls made so far, with their outcomes

vars == <<tree, args, pc, result, context, structured, frame, calls>>

---------------------------------------------------------------------------
(* Python values *)

None == [t |-> "None", v |-> 0]
PyStr(s) == [t |-> "str", v |-> s]
PyInt(n) == [t |-> "int", v |-> n]
PyList(s) == [t |-> "list", v |-> s]
PyTuple(s) == [t |-> "tuple", v |-> s]
PyDict(f) == [t |-> "dict", v |-> f]
Raise(e) == [t |-> "raise", v |-> e]

IsRaise(x) == x.t = "raise"

\* bool(x) of a str or an int
Truthy(x) ==
    CASE x.t = "None" -> FALSE
      [] x.t = "int" -> x.v # 0
      [] x.t = "str" -> x.v # ""
      [] OTHER -> TRUE

\* an empty dict
EmptyDict == [k \in {} |-> None]

\* d[k] = v on a dict held as a function
DictSet(d, k, v) == [x \in DOMAIN d \cup {k} |-> IF x = k THEN v ELSE d[x]]

\* the decimal strings the model's attributes use, and int() of each
IntLiteral ==
    [s \in {"0", "5", "9", "10", "12", "14", "15", "16"} |->
        CASE s = "0" -> 0 [] s = "5" -> 5 [] s = "9" -> 9 [] s = "10" -> 10
          [] s = "12" -> 12 [] s = "14" -> 14 [] s = "15" -> 15 [] s = "16" -> 16]

\* int(value): ValueError on a string that is no integer literal
int(value) ==
    IF value \in DOMAIN IntLiteral THEN PyInt(IntLiteral[value])
    ELSE Raise("ValueError")

\* cast(value) for the casts the program passes: None (no cast) or int
ApplyCast(cast, value) == IF cast = "int" THEN int(value) ELSE PyStr(value)

---------------------------------------------------------------------------
(* Styled nodes.  A node is [name, parent, attrs, text]: parent is the     *)
(* index of the parent in the tree, 0 for a node whose parent is None;     *)
(* attrs maps the attribute names the tag carries to their strings.        *)

NoAttrs == [k \in {} |-> ""]

\* tag.get(name)
Get(tag, name) ==
    IF name \in DOMAIN tag.attrs THEN PyStr(tag.attrs[name]) ELSE None

\* _tag_value: value is not None and cast(value) or None
_tag_value(tag, name, cast) ==
    LET value == Get(tag, name) IN
    IF cast = "None" THEN value
    ELSE IF value = None THEN None
    ELSE LET c == ApplyCast(cast, value.v) IN
         IF IsRaise(c) THEN c
         ELSE IF Truthy(c) THEN c ELSE None

\* the while loop of tag_value, entered at node i with result None
RECURSIVE Climb(_, _, _, _)
Climb(soup, i, attribute, cast) ==
    LET r == _tag_value(soup[i], attribute, cast) IN
    IF IsRaise(r) THEN r
    ELSE IF r # None THEN r
    ELSE IF soup[i].parent = 0 THEN None
    ELSE Climb(soup, soup[i].parent, attribute, cast)

tag_value(soup, i, attribute, inherited, cast) ==
    IF ~inherited THEN _tag_value(soup[i], attribute, cast)
    ELSE Climb(soup, i, attribute, cast)

---------------------------------------------------------------------------
(* The resolver on its own: tag_value on a chain of nodes. *)

MaxDepth == 3

\* the strings an attribute holds in the resolver's trees
RawVals == {"0", "5", "abc"}

\* the attrs of a node: "top" absent or one of RawVals
TopAttrs == {NoAttrs} \cup {[k \in {"top"} |-> s] : s \in RawVals}

Chain(as) ==
    [i \in 1..Len(as) |->
        [name |-> "span", parent |-> i - 1, attrs |-> as[i], text |-> <<>>]]

Chains == UNION {{Chain(as) : as \in [1..n -> TopAttrs]} : n \in 1..MaxDepth}

Unused ==
    /\ context = EmptyDict
    /\ structured = EmptyDict
    /\ frame = EmptyDict
    /\ calls = <<>>

InitResolver ==
    /\ tree \in Chains
    /\ args \in [tag : {Len(tree)}, attribute : {"top"},
                 inherited : BOOLEAN, cast : {"None", "int"}]
    /\ pc = "start"
    /\ result = None
    /\ Unused

TagValue ==
    /\ pc = "start"
    /\ result' = tag_value(tree, args.tag, args.attribute, args.inherited, args.cast)
    /\ pc' = "done"
    /\ UNCHANGED <<tree, args, context, structured, frame, calls>>

NextResolver == TagValue

SpecResolver == InitResolver /\ [][NextResolver]_vars

\* the nearest node from i up to the root that carries the attribute, 0 if none
RECURSIVE Nearest(_, _, _)
Nearest(soup, i, attribute) ==
    IF attribute \in DOMAIN soup[i].attrs THEN i
    ELSE IF soup[i].parent = 0 THEN 0
    ELSE Nearest(soup, soup[i].parent, attribute)

\* C7: tag_value returns the (cast) value of the nearest node on the path to
\* the root that carries the attribute, whatever it is (0 included), and None
\* when no node on the path carries it.
C7_NearestValue ==
    (pc = "done" /\ args.inherited) =>
        LET n == Nearest(tree, args.tag, args.attribute) IN
        IF n = 0 THEN result = None
        ELSE LET c == ApplyCast(args.cast, tree[n].attrs[args.attribute]) IN
             ~IsRaise(c) => result = c

\* C8: when the cast fails on the value found, the lookup returns None: the
\* failure is not raised and no ancestor is tried.
C8_CastFailureIsNone ==
    (pc = "done" /\ args.inherited) =>
        LET n == Nearest(tree, args.tag, args.attribute) IN
        (n # 0 /\ IsRaise(ApplyCast(args.cast, tree[n].attrs[args.attribute])))
            => result = None

---------------------------------------------------------------------------
(* Text.  A str taken from the document is a sequence of tokens.  A word   *)
(* token is a run of name-component characters (letters, periods, dashes); *)
(* a number token is a run of digits; every other token is one character.  *)

\* _RE_SPACE: the Unicode spaces (the ASCII space and the no-break space here)
Spaces == {" ", "nbsp"}
\* what RE_WHITESPACE matches one character of, and what str.strip() strips
Whitespace == Spaces \cup {"\n", "\t"}
\* runs of _RE_NAME_COMPONENT characters
Words == {"Received", "received", "Accepted", "accepted", "Published",
          "published", "Online", "online", "J.", "Smith", "Fast", "Graphs", "AE"}
\* the alternatives of _RE_PREFIX_SKIP's first group
Separators == {",", "mdot"}

\* str.lower() of one token
LowerToken(tok) ==
    CASE tok = "Received" -> "received"
      [] tok = "Accepted" -> "accepted"
      [] tok = "Published" -> "published"
      [] tok = "Online" -> "online"
      [] tok = "Smith" -> "smith"
      [] tok = "Fast" -> "fast"
      [] tok = "Graphs" -> "graphs"
      [] tok = "J." -> "j."
      [] OTHER -> tok

lower(s) == [i \in 1..Len(s) |-> LowerToken(s[i])]

RECURSIVE lstrip(_)
lstrip(s) == IF s # <<>> /\ Head(s) \in Whitespace THEN lstrip(Tail(s)) ELSE s

RECURSIVE rstrip(_)
rstrip(s) ==
    IF s # <<>> /\ s[Len(s)] \in Whitespace THEN rstrip(SubSeq(s, 1, Len(s) - 1)) ELSE s

strip(s) == rstrip(lstrip(s))

startswith(s, prefix) ==
    Len(s) >= Len(prefix) /\ SubSeq(s, 1, Len(prefix)) = prefix

\* s.split(sep): the pieces between the occurrences of the token sep
RECURSIVE SplitFrom(_, _, _)
SplitFrom(s, sep, piece) ==
    IF s = <<>> THEN <<piece>>
    ELSE IF Head(s) = sep THEN <<piece>> \o SplitFrom(Tail(s), sep, <<>>)
    ELSE SplitFrom(Tail(s), sep, Append(piece, Head(s)))

split(s, sep) == SplitFrom(s, sep, <<>>)

\* RE_WHITESPACE.sub(" ", s): every run of whitespace becomes one space
RECURSIVE SubWhitespace(_)
SubWhitespace(s) ==
    IF s = <<>> THEN <<>>
    ELSE IF Head(s) \in Whitespace THEN <<" ">> \o SubWhitespace(lstrip(s))
    ELSE <<Head(s)>> \o SubWhitespace(Tail(s))

normalize_str(content) == SubWhitespace(strip(content))

\* tag.text: the node's own text followed by the text of its descendants
RECURSIVE IsUnder(_, _, _)
IsUnder(soup, j, i) ==
    j = i \/ (soup[j].parent # 0 /\ IsUnder(soup, soup[j].parent, i))

RECURSIVE TextFrom(_, _, _)
TextFrom(soup, i, j) ==
    IF j > Len(soup) THEN <<>>
    ELSE (IF IsUnder(soup, j, i) THEN soup[j].text ELSE <<>>) \o TextFrom(soup, i, j + 1)

Text(soup, i) == TextFrom(soup, i, i)

---------------------------------------------------------------------------
(* The stages.  A predicate on a tag returns Bool(TRUE), Bool(FALSE) or    *)
(* Raise(e); a stage returns [ret, context]: the value returned or the     *)
(* exception raised, and the context as the stage leaves it.               *)

Bool(b) == [t |-> "bool", v |-> b]
\* a str taken from the document: its tokens
PyText(s) == [t |-> "text", v |-> s]

MIN_TITLE_FONT_SIZE == 15

\* is_title with int(size) <= MIN_TITLE_FONT_SIZE as the rejection
is_title_strict(tag) ==
    IF tag.name # "span" \/ Get(tag, "page") # PyStr("1") THEN Bool(FALSE)
    ELSE LET size == Get(tag, "font-size") IN
         IF size = None THEN Bool(FALSE)
         ELSE LET n == int(size.v) IN
              IF IsRaise(n) THEN n
              ELSE IF n.v <= MIN_TITLE_FONT_SIZE THEN Bool(FALSE)
              ELSE Bool(TRUE)

is_title(tag) ==
    IF tag.name # "span" \/ Get(tag, "page") # PyStr("1") THEN Bool(FALSE)
    ELSE LET size == Get(tag, "font-size") IN
         IF size = None THEN Bool(FALSE)
         ELSE LET n == int(size.v) IN
              IF IsRaise(n) THEN n
              ELSE IF n.v < MIN_TITLE_FONT_SIZE THEN Bool(FALSE)
              ELSE Bool(TRUE)

\* soup.find(is_title) from node i on: the index found, 0 for None, or Raise(e)
RECURSIVE FindTitleTag(_, _)
FindTitleTag(soup, i) ==
    IF i > Len(soup) THEN PyInt(0)
    ELSE LET r == is_title(soup[i]) IN
         IF IsRaise(r) THEN r
         ELSE IF r.v THEN PyInt(i)
         ELSE FindTitleTag(soup, i + 1)

find_title(soup, ctx) ==
    LET title == FindTitleTag(soup, 1) IN
    IF IsRaise(title) THEN [ret |-> title, context |-> ctx]
    ELSE IF title.v # 0 THEN
        LET size == tag_value(soup, title.v, "font-size", TRUE, "int") IN
        IF IsRaise(size) THEN [ret |-> size, context |-> ctx]
        ELSE [ret |-> PyText(normalize_str(Text(soup, title.v))),
              context |-> DictSet(ctx, "title-size", size)]
    ELSE [ret |-> Raise("InsufficientParser"), context |-> ctx]

\* the phase of one segment of a date line
Phase(c) ==
    LET c_lower == lower(c) IN
    IF startswith(c_lower, <<"received">>) THEN "received"
    ELSE IF startswith(c_lower, <<"accepted">>) THEN "accepted"
    ELSE IF startswith(c_lower, <<"published">>) THEN "published"
    ELSE "published"

\* c.split(":")[1].strip(), IndexError when c holds no ":"
SegmentValue(c) ==
    LET parts == split(c, ":") IN
    IF Len(parts) < 2 THEN Raise("IndexError") ELSE PyText(strip(parts[2]))

\* the for loop of parse_dates over the segments from position i on
RECURSIVE ParseSegments(_, _, _)
ParseSegments(segments, i, res) ==
    IF i > Len(segments) THEN PyDict(res)
    ELSE LET c == strip(segments[i])
             value == SegmentValue(c)
         IN IF IsRaise(value) THEN value
            ELSE ParseSegments(segments, i + 1, DictSet(res, Phase(c), value))

parse_dates(content) == ParseSegments(split(content, "/"), 1, EmptyDict)

DATE_KEYWORDS ==
    << <<"received", ":">>, <<"accepted", ":">>, <<"published", ":">>,
       <<"published", " ", "online", ":">> >>

\* the first keyword of DATE_KEYWORDS that lowered starts with, 0 if none
FirstKeyword(lowered) ==
    LET hits == {k \in 1..Len(DATE_KEYWORDS) : startswith(lowered, DATE_KEYWORDS[k])} IN
    IF hits = {} THEN 0 ELSE CHOOSE k \in hits : \A j \in hits : k <= j

\* next(filter(lambda it: begin == it.lower()[:len(begin)], content.split("\n")))
FirstLine(content, begin) ==
    LET lines == split(content, "\n")
        hits == {k \in 1..Len(lines) : startswith(lower(lines[k]), begin)}
    IN IF hits = {} THEN Raise("StopIteration")
       ELSE PyText(lines[CHOOSE k \in hits : \A j \in hits : k <= j])

\* the loop of find_dates over soup.find_all("span", {"page": "1"}), from node i on
RECURSIVE find_dates_from(_, _, _)
find_dates_from(soup, ctx, i) ==
    IF i > Len(soup) THEN [ret |-> Raise("InsufficientParser"), context |-> ctx]
    ELSE IF soup[i].name # "span" \/ Get(soup[i], "page") # PyStr("1")
    THEN find_dates_from(soup, ctx, i + 1)
    ELSE
    LET content == strip(Text(soup, i))
        k == FirstKeyword(lower(content))
    IN IF k = 0 THEN find_dates_from(soup, ctx, i + 1)
       ELSE
       LET top == tag_value(soup, i, "top", TRUE, "int")
           ctx1 == DictSet(ctx, "date-start", top)
           size == tag_value(soup, i, "font-size", TRUE, "int")
           ctx2 == DictSet(ctx1, "date-size", size)
           line == FirstLine(content, DATE_KEYWORDS[k])
       IN IF IsRaise(top) THEN [ret |-> top, context |-> ctx]
          ELSE IF IsRaise(size) THEN [ret |-> size, context |-> ctx1]
          ELSE IF IsRaise(line) THEN [ret |-> line, context |-> ctx2]
          ELSE [ret |-> parse_dates(line.v), context |-> ctx2]

find_dates(soup, ctx) == find_dates_from(soup, ctx, 1)

\* how many tokens of s, from position i on, are words (a run of them is one
\* _RE_NAME_COMPONENT+)
RECURSIVE WordRun(_, _)
WordRun(s, i) ==
    IF i <= Len(s) /\ s[i] \in Words THEN 1 + WordRun(s, i + 1) ELSE 0

RECURSIVE SpaceRun(_, _)
SpaceRun(s, i) ==
    IF i <= Len(s) /\ s[i] \in Spaces THEN 1 + SpaceRun(s, i + 1) ELSE 0

\* the part of RE_AUTHOR_NAME after its optional prefix, tried at position i:
\* a component, then one space and a component, at least once
NameAt(s, i) ==
    LET n == WordRun(s, i) IN
    n > 0 /\ i + n <= Len(s) /\ s[i + n] \in Spaces /\ WordRun(s, i + n + 1) > 0

\* the length of what RE_PREFIX_SKIP matches at the start of s, 0 for no match
PrefixSkip(s) ==
    IF s # <<>> /\ s[1] \in Separators /\ SpaceRun(s, 2) > 0
    THEN 1 + SpaceRun(s, 2) ELSE 0

\* RE_AUTHOR_NAME.match(s) is not None
RE_AUTHOR_NAME_match(s) ==
    \/ (PrefixSkip(s) > 0 /\ NameAt(s, PrefixSkip(s) + 1))
    \/ NameAt(s, 1)

\* context.get(key, 100): a missing key reads as a bound no size reaches
ContextGet_Default(ctx, key) == IF key \in DOMAIN ctx THEN ctx[key] ELSE PyInt(100)

\* context[key]: KeyError when the key is missing
ContextGet(ctx, key) == IF key \in DOMAIN ctx THEN ctx[key] ELSE Raise("KeyError")

\* a comparison of an int with a context lookup: the lookup's KeyError,
\* TypeError on None, else the comparison
Greater(a, b) ==
    IF IsRaise(b) THEN b
    ELSE IF b.t # "int" THEN Raise("TypeError")
    ELSE Bool(a.v > b.v)

LessEq(a, b) ==
    IF IsRaise(b) THEN b
    ELSE IF b.t # "int" THEN Raise("TypeError")
    ELSE Bool(a.v <= b.v)

GreaterEq(a, b) ==
    IF IsRaise(b) THEN b
    ELSE IF b.t # "int" THEN Raise("TypeError")
    ELSE Bool(a.v >= b.v)

is_namelike(soup, i, ctx) ==
    LET tag == soup[i] IN
    IF tag.name # "span" \/ Get(tag, "page") # PyStr("1") THEN Bool(FALSE)
    ELSE
    LET top == tag_value(soup, i, "top", TRUE, "int") IN
    IF IsRaise(top) THEN top
    ELSE IF top = None THEN Bool(FALSE)
    ELSE
    LET below == Greater(top, ContextGet(ctx, "date-start")) IN
    IF IsRaise(below) THEN below
    ELSE IF below.v THEN Bool(FALSE)
    ELSE
    LET size == tag_value(soup, i, "font-size", TRUE, "int") IN
    IF IsRaise(size) THEN size
    ELSE IF size = None THEN Bool(FALSE)
    ELSE
    LET small == LessEq(size, ContextGet(ctx, "date-size")) IN
    IF IsRaise(small) THEN small
    ELSE IF small.v THEN Bool(FALSE)
    ELSE
    LET large == GreaterEq(size, ContextGet(ctx, "title-size")) IN
    IF IsRaise(large) THEN large
    ELSE IF large.v THEN Bool(FALSE)
    ELSE
    LET content == strip(Text(soup, i)) IN
    IF content = <<>> THEN Bool(FALSE)
    ELSE Bool(RE_AUTHOR_NAME_match(content))

\* the text find_authors appends for a candidate: stripped, minus the prefix
Cleaned(text) ==
    LET cleaned == strip(text) IN
    SubSeq(cleaned, PrefixSkip(cleaned) + 1, Len(cleaned))

\* the loop of find_authors over soup.find_all(is_namelike), from node i on
\* ("AE" is the one-letter text the loop skips; RE_AUTHOR_NAME has three
\* groups, so len(name.groups()) >= 3 holds of every candidate)
RECURSIVE find_authors_from(_, _, _, _)
find_authors_from(soup, ctx, i, res) ==
    IF i > Len(soup) THEN
        IF Len(res) > 0 THEN PyList(res) ELSE Raise("InsufficientParser")
    ELSE LET r == is_namelike(soup, i, ctx) IN
         IF IsRaise(r) THEN r
         ELSE IF r.v /\ strip(Text(soup, i)) # <<"AE">>
         THEN find_authors_from(soup, ctx, i + 1,
                                Append(res, PyText(Cleaned(Text(soup, i)))))
         ELSE find_authors_from(soup, ctx, i + 1, res)

find_authors(soup, ctx) ==
    [ret |-> find_authors_from(soup, ctx, 1, <<>>), context |-> ctx]

---------------------------------------------------------------------------
(* Documents for the stages on their own: two nested divs that may carry   *)
(* the inherited attributes, and under them a number of tags in document   *)
(* order.                                                                  *)

Node(name, parent, attrs, text) ==
    [name |-> name, parent |-> parent, attrs |-> attrs, text |-> text]

\* the attrs dict of a tag: page, and top and font-size where given ("" = absent)
Attrs(page, top, size) ==
    [k \in {"page"} \cup (IF top = "" THEN {} ELSE {"top"})
                    \cup (IF size = "" THEN {} ELSE {"font-size"}) |->
        CASE k = "page" -> page [] k = "top" -> top [] OTHER -> size]

\* <div><div> tags </div></div>
Document(outer, inner, tags) ==
    <<Node("div", 0, outer, <<>>), Node("div", 1, inner, <<>>)>>
      \o [i \in 1..Len(tags) |-> Node(tags[i].name, 2, tags[i].attrs, tags[i].text)]

\* tag name and page of the tags tried: a span of page 1, a span of page 2, a link
Kinds == {<<"span", "1">>, <<"span", "2">>, <<"a", "1">>}

Tags(tops, sizes, texts) ==
    {[name |-> k[1], attrs |-> Attrs(k[2], top, size), text |-> text] :
        k \in Kinds, top \in tops, size \in sizes, text \in texts}

StartCall ==
    /\ pc = "start"
    /\ result = None
    /\ structured = EmptyDict
    /\ frame = EmptyDict
    /\ calls = <<>>

---------------------------------------------------------------------------
(* The title stage on its own. *)

TitleSpans == 2

TitleTexts == {<<"Fast", " ", "Graphs">>, <<"\n", "J.", "nbsp", "\t", " ", "Smith", " ">>}

TitleDocuments ==
    {Document(Attrs("1", "", o), Attrs("1", "", n), tags) :
        o \in {"", "16"}, n \in {"", "12"},
        tags \in [1..TitleSpans -> Tags({""}, {"", "14", "15", "16", "abc"}, TitleTexts)]}

InitTitle ==
    /\ tree \in TitleDocuments
    /\ args = [stage |-> "find_title"]
    /\ context = EmptyDict
    /\ StartCall

FindTitle ==
    /\ pc = "start"
    /\ LET r == find_title(tree, context) IN
        /\ result' = r.ret
        /\ context' = r.context
    /\ pc' = "done"
    /\ UNCHANGED <<tree, args, structured, frame, calls>>

NextTitle == FindTitle

SpecTitle == InitTitle /\ [][NextTitle]_vars

\* the first node from i on that satisfies P, 0 if none
FirstNode(soup, P(_)) ==
    LET hits == {i \in 1..Len(soup) : P(i)} IN
    IF hits = {} THEN 0 ELSE CHOOSE i \in hits : \A j \in hits : i <= j

IsPage1Span(tag) == tag.name = "span" /\ "page" \in DOMAIN tag.attrs /\ tag.attrs["page"] = "1"

\* a decimal string of at least MIN_TITLE_FONT_SIZE
BigEnough(s) == s \in {"15", "16"}

\* the tag's resolved font size is at least 15: its own font-size, or when it
\* has none that of its nearest ancestor that has one
ResolvedBig(soup, i) ==
    LET n == Nearest(soup, i, "font-size") IN
    n # 0 /\ BigEnough(soup[n].attrs["font-size"])

\* the tag's own font-size is at least 15
OwnBig(soup, i) ==
    "font-size" \in DOMAIN soup[i].attrs /\ BigEnough(soup[i].attrs["font-size"])

\* the tag's own font-size is no integer
OwnBad(soup, i) ==
    "font-size" \in DOMAIN soup[i].attrs /\ soup[i].attrs["font-size"] \notin DOMAIN IntLiteral

\* the text with its whitespace runs collapsed and its ends trimmed: no
\* whitespace other than single spaces between other tokens
Normalized(s) ==
    /\ \A i \in 1..Len(s) : s[i] \in Whitespace => s[i] = " "
    /\ \A i \in 1..Len(s) : s[i] = " " => (1 < i /\ i < Len(s) /\ s[i + 1] # " ")

\* the tokens of s that are not whitespace
RECURSIVE Visible(_)
Visible(s) ==
    IF s = <<>> THEN <<>>
    ELSE (IF Head(s) \in Whitespace THEN <<>> ELSE <<Head(s)>>) \o Visible(Tail(s))

\* C6 (as stated): the title stage returns the normalized text of the first
\* page-1 span whose resolved font size (own or inherited) is at least 15, and
\* signals insufficient evidence exactly when there is none (read here over
\* the trees whose font sizes are all integers).
C6_Original ==
    (pc = "done" /\ \A i \in 1..Len(tree) : ~OwnBad(tree, i)) =>
        LET t == FirstNode(tree, LAMBDA i : IsPage1Span(tree[i]) /\ ResolvedBig(tree, i)) IN
        IF t = 0 THEN result = Raise("InsufficientParser")
        ELSE /\ result.t = "text"
             /\ Normalized(result.v)
             /\ Visible(result.v) = Visible(Text(tree, t))

\* C6 (amended): with t the first page-1 span whose own font-size attribute is
\* at least 15 and b the first page-1 span whose own font-size is no integer:
\* when t exists and no b precedes it the stage returns the normalized text of
\* t; when neither exists it signals insufficient evidence; otherwise (b comes
\* first) it fails with ValueError.
C6_Title ==
    pc = "done" =>
        LET t == FirstNode(tree, LAMBDA i : IsPage1Span(tree[i]) /\ OwnBig(tree, i))
            b == FirstNode(tree, LAMBDA i : IsPage1Span(tree[i]) /\ OwnBad(tree, i))
        IN IF t # 0 /\ (b = 0 \/ t < b)
           THEN /\ result.t = "text"
                /\ Normalized(result.v)
                /\ Visible(result.v) = Visible(Text(tree, t))
           ELSE IF b = 0 THEN result = Raise("InsufficientParser")
           ELSE result = Raise("ValueError")

\* the stage returned the text of tag 4, changed by the normalization, after
\* passing over tag 3, a page-1 span that only inherits a font size of 16
C6_Witness ==
    /\ pc = "done"
    /\ result.t = "text"
    /\ FirstNode(tree, LAMBDA i : IsPage1Span(tree[i]) /\ OwnBig(tree, i)) = 4
    /\ IsPage1Span(tree[3]) /\ ResolvedBig(tree, 3)
    /\ Text(tree, 4) # result.v

---------------------------------------------------------------------------
(* The authors stage on its own, on the contexts the earlier stages can    *)
(* leave behind.                                                           *)

AuthorSpans == 1

AuthorTexts ==
    {<<",", " ", "J.", " ", "Smith", "\n">>, <<"Smith">>, <<"J.", " ", "Smith", ",">>}

AuthorDocuments ==
    {Document(Attrs("1", o, ""), Attrs("1", "", ""), tags) :
        o \in {"", "9"},
        tags \in [1..AuthorSpans ->
                    Tags({"", "5", "9", "10"}, {"", "10", "12", "16"}, AuthorTexts)]}

\* a context with the keys of ks, from the values the title and dates stages write
ContextOf(ks, start) ==
    [k \in ks |-> CASE k = "title-size" -> PyInt(16)
                    [] k = "date-start" -> start
                    [] k = "date-size" -> PyInt(10)]

AuthorContexts ==
    {ContextOf({}, None), ContextOf({"title-size"}, None),
     ContextOf({"date-start", "date-size"}, PyInt(9)),
     ContextOf({"title-size", "date-start", "date-size"}, PyInt(9)),
     ContextOf({"title-size", "date-start", "date-size"}, None)}

InitAuthors ==
    /\ tree \in AuthorDocuments
    /\ args = [stage |-> "find_authors"]
    /\ context \in AuthorContexts
    /\ StartCall

FindAuthors ==
    /\ pc = "start"
    /\ LET r == find_authors(tree, context) IN
        /\ result' = r.ret
        /\ context' = r.context
    /\ pc' = "done"
    /\ UNCHANGED <<tree, args, structured, frame, calls>>

NextAuthors == FindAuthors

SpecAuthors == InitAuthors /\ [][NextAuthors]_vars

\* C4: with the date-stage keys withheld from the context, the authors stage
\* always ends in InsufficientParser, never in a list and never in another
\* failure.
C4_WithheldIsInsufficient ==
    (pc = "done" /\ "date-start" \notin DOMAIN context /\ "date-size" \notin DOMAIN context)
        => result = Raise("InsufficientParser")

\* the integer of the attribute of the tag, held by its nearest carrier
Resolved(soup, i, attribute) ==
    IntLiteral[soup[Nearest(soup, i, attribute)].attrs[attribute]]

IsCandidate(i) == is_namelike(tree, i, context) = Bool(TRUE)

\* C5: a candidate is a page-1 span whose resolved top is strictly less than
\* the date anchor position and whose resolved font size is strictly between
\* the date anchor size and the title size.
C5_StrictlyAbove ==
    pc = "done" =>
        \A i \in 1..Len(tree) : IsCandidate(i) =>
            /\ IsPage1Span(tree[i])
            /\ Resolved(tree, i, "top") < context["date-start"].v
            /\ Resolved(tree, i, "font-size") > context["date-size"].v
            /\ Resolved(tree, i, "font-size") < context["title-size"].v

\* the whole of s is two or more name components separated by single spaces
IsFullName(s) ==
    /\ NameAt(s, 1)
    /\ \A i \in 1..Len(s) : s[i] \in Words \cup Spaces
    /\ s[Len(s)] \in Words
    /\ \A i \in 1..(Len(s) - 1) : ~(s[i] \in Spaces /\ s[i + 1] \in Spaces)

\* C12: every string of the list find_authors returns is a cleaned author
\* name: it has no leading separator run and it is, as a whole, two or more
\* name components separated by single spaces; the strings are in document
\* order.
C12_CleanedNames ==
    (pc = "done" /\ result.t = "list") =>
        /\ \A k \in 1..Len(result.v) :
              /\ PrefixSkip(result.v[k].v) = 0
              /\ IsFullName(result.v[k].v)
        /\ \E at \in [1..Len(result.v) -> 1..Len(tree)] :
              /\ \A k \in 1..Len(result.v) :
                    IsCandidate(at[k]) /\ result.v[k].v = Cleaned(Text(tree, at[k]))
              /\ \A k \in 1..(Len(result.v) - 1) : at[k] < at[k + 1]

---------------------------------------------------------------------------
(* The dates stage on its own: one page-1 span holding any text of up to   *)
(* MaxLine tokens.                                                         *)

MaxLine == 5

DateTokens == {"Received", "accepted", "12", ":", "/", " ", "\n"}

DateTexts == UNION {[1..n -> DateTokens] : n \in 0..MaxLine}

DateDocuments ==
    {Document(Attrs("1", "", ""), Attrs("1", "9", "10"),
              <<[name |-> "span", attrs |-> Attrs("1", "", ""), text |-> text]>>) :
        text \in DateTexts}

InitDates ==
    /\ tree \in DateDocuments
    /\ args = [stage |-> "find_dates"]
    /\ context = EmptyDict
    /\ StartCall

FindDates ==
    /\ pc = "start"
    /\ LET r == find_dates(tree, context) IN
        /\ result' = r.ret
        /\ context' = r.context
    /\ pc' = "done"
    /\ UNCHANGED <<tree, args, structured, frame, calls>>

NextDates == FindDates

SpecDates == InitDates /\ [][NextDates]_vars

\* the position of the first ":" of c, 0 if it has none
FirstColon(c) ==
    LET hits == {i \in 1..Len(c) : c[i] = ":"} IN
    IF hits = {} THEN 0 ELSE CHOOSE i \in hits : \A j \in hits : i <= j

\* the whole trimmed text after the first ":" of c
AfterFirstColon(c) == strip(SubSeq(c, FirstColon(c) + 1, Len(c)))

\* the date line of the span: the first line of its trimmed text
MatchedLine == split(strip(Text(tree, 3)), "\n")[1]

\* C9: for a matched date line (read here over the lines whose segments all
\* hold a ":"), the stage returns a mapping where every "/"-separated segment
\* gives its phase the whole trimmed text after its first ":", later ":"
\* included (the last segment of a phase is the one kept).
C9_WholeTextAfterColon ==
    LET segments == split(MatchedLine, "/") IN
    (/\ pc = "done"
     /\ FirstKeyword(lower(strip(Text(tree, 3)))) # 0
     /\ \A i \in 1..Len(segments) : FirstColon(segments[i]) # 0) =>
        /\ result.t = "dict"
        /\ \A i \in 1..Len(segments) :
            LET c == strip(segments[i]) IN
            /\ Phase(c) \in DOMAIN result.v
            /\ (\A j \in (i + 1)..Len(segments) : Phase(strip(segments[j])) # Phase(c))
                  => result.v[Phase(c)] = PyText(AfterFirstColon(c))

---------------------------------------------------------------------------
(* The flattener.  frame and structured are dicts held as functions from   *)
(* column (key) to value; a flattening in progress is [frame, structured,  *)
(* exc], exc the exception that ended it or None.  A dict value is held as *)
(* a function from its keys: the order of its keys decides nothing, since  *)
(* every nested name is a string and no nested call can raise.             *)

\* the column name without its last part
Column_NoEntry(name, separator, entry) == name

\* f"{name}{separator}{entry}"
Column(name, separator, entry) == name \o separator \o entry

\* value.get(entry, None) of a dict that has lost its keys
DictGet_Missing(value, entry) == None

\* value.get(entry, None)
DictGet(value, entry) ==
    IF entry \in DOMAIN value.v THEN value.v[entry] ELSE None

RECURSIVE store_recursive(_, _, _, _, _)
RECURSIVE StoreList(_, _, _, _, _)
RECURSIVE StoreDict(_, _, _, _, _)
RECURSIVE StoreTuple(_, _, _, _, _, _)

\* for i, entry in enumerate(value), from index i (0-based) on
StoreList(st, name, value, i, separator) ==
    IF i >= Len(value.v) \/ IsRaise(st.exc) THEN st
    ELSE StoreList(
            store_recursive(st, PyStr(Column(name.v, separator, ToString(i))),
                            value.v[i + 1], TRUE, separator),
            name, value, i + 1, separator)

\* for entry in value, over the keys left
StoreDict(st, name, value, keys, separator) ==
    IF keys = {} \/ IsRaise(st.exc) THEN st
    ELSE LET entry == CHOOSE k \in keys : TRUE IN
         StoreDict(
            store_recursive(st, PyStr(Column(name.v, separator, entry)),
                            DictGet(value, entry), TRUE, separator),
            name, value, keys \ {entry}, separator)

\* for entry in list(name), from position i (1-based) on
StoreTuple(st, name, value, i, table_only, separator) ==
    IF i > Len(name.v) \/ IsRaise(st.exc) THEN st
    ELSE LET entry == name.v[i]
             s1 == store_recursive(st, entry, DictGet(value, entry.v), TRUE, separator)
             s2 == IF IsRaise(s1.exc) \/ table_only THEN s1
                   ELSE [s1 EXCEPT !.structured =
                            DictSet(@, entry.v, DictGet(value, entry.v))]
         IN StoreTuple(s2, name, value, i + 1, table_only, separator)

store_recursive(st, name, value0, table_only, separator) ==
    IF IsRaise(st.exc) \/ value0.t = "None" THEN st
    ELSE
    LET value == IF value0.t = "tuple" THEN PyList(value0.v) ELSE value0 IN
    CASE value.t = "list" ->
            IF name.t # "str" THEN [st EXCEPT !.exc = Raise("AssertionError")]
            ELSE LET s1 == [st EXCEPT !.frame =
                               DictSet(@, Column(name.v, separator, "length"),
                                       PyInt(Len(value.v)))]
                     s2 == StoreList(s1, name, value, 0, separator)
                 IN IF IsRaise(s2.exc) \/ table_only THEN s2
                    ELSE [s2 EXCEPT !.structured = DictSet(@, name.v, value)]
      [] value.t = "dict" ->
            IF name.t = "tuple" THEN StoreTuple(st, name, value, 1, table_only, separator)
            ELSE IF name.t # "str" THEN [st EXCEPT !.exc = Raise("AssertionError")]
            ELSE LET s2 == StoreDict(st, name, value, DOMAIN value.v, separator)
                 IN IF IsRaise(s2.exc) \/ table_only THEN s2
                    ELSE [s2 EXCEPT !.structured = DictSet(@, name.v, value)]
      [] OTHER ->
            IF name.t = "str"
            THEN [st EXCEPT
                    !.frame = DictSet(@, name.v, value),
                    !.structured = IF table_only THEN @ ELSE DictSet(@, name.v, value)]
            ELSE [st EXCEPT !.exc = Raise("Exception")]

---------------------------------------------------------------------------
(* The flattener on its own: one call of store_recursive on an empty Row   *)
(* and Record.                                                             *)

MaxList == 3

Ints == {PyInt(1), PyInt(2), PyInt(3)}
Scalars == Ints \cup {PyText(<<"d1">>), PyText(<<"d2">>)}
Lists == UNION {{PyList(s) : s \in [1..n -> Ints]} : n \in 0..MaxList}
DictKeys == {"a", "received", "accepted"}

\* dicts of one key hold any value; dicts of more keys hold scalars or None
Dicts1 == {PyDict([k \in {key} |-> x]) :
              key \in DictKeys, x \in Scalars \cup Lists \cup {None}}
DictsN == UNION {{PyDict(f) : f \in [ks -> Scalars \cup {None}]} :
              ks \in {s \in SUBSET DictKeys : Cardinality(s) # 1}}

FlatValues ==
    Scalars \cup Lists \cup Dicts1 \cup DictsN
      \cup {None, PyTuple(<<PyInt(1), PyInt(2)>>), PyDict([k \in {"a"} |-> PyDict([j \in {"b"} |-> PyInt(1)])])}

FlatNames ==
    {PyStr("x"), PyStr("authors"),
     PyTuple(<<PyStr("received"), PyStr("accepted")>>),
     PyTuple(<<PyStr("received"), PyStr("accepted"), PyStr("published")>>)}

InitFlatten ==
    /\ tree = <<>>
    /\ args \in [name : FlatNames, value : FlatValues]
    /\ pc = "start"
    /\ result = None
    /\ Unused

StoreRecursive ==
    /\ pc = "start"
    /\ LET st == store_recursive([frame |-> frame, structured |-> structured, exc |-> None],
                                 args.name, args.value, FALSE, ".")
       IN /\ frame' = st.frame
          /\ structured' = st.structured
          /\ result' = st.exc
    /\ pc' = "done"
    /\ UNCHANGED <<tree, args, context, calls>>

NextFlatten == StoreRecursive

SpecFlatten == InitFlatten /\ [][NextFlatten]_vars

List123 == PyList(<<PyInt(1), PyInt(2), PyInt(3)>>)
C10_Input == [name |-> PyStr("x"), value |-> PyDict([k \in {"a"} |-> List123])]

\* C10 (as stated): flattening {"a": [1,2,3]} under "x" gives the Row
\* x.length=3, x.0=1, x.1=2, x.2=3 and the Record {"x": [1,2,3]}.
C10_Original ==
    (pc = "done" /\ args = C10_Input) =>
        /\ frame = [c \in {"x.length", "x.0", "x.1", "x.2"} |->
                      CASE c = "x.length" -> PyInt(3) [] c = "x.0" -> PyInt(1)
                        [] c = "x.1" -> PyInt(2) [] c = "x.2" -> PyInt(3)]
        /\ structured = [k \in {"x"} |-> List123]

\* C10 (amended): flattening {"a": [1,2,3]} under "x" gives the Row
\* x.a.length=3, x.a.0=1, x.a.1=2, x.a.2=3 and the Record {"x": {"a": [1,2,3]}},
\* and raises nothing.
C10_Flatten ==
    (pc = "done" /\ args = C10_Input) =>
        /\ frame = [c \in {"x.a.length", "x.a.0", "x.a.1", "x.a.2"} |->
                      CASE c = "x.a.length" -> PyInt(3) [] c = "x.a.0" -> PyInt(1)
                        [] c = "x.a.1" -> PyInt(2) [] c = "x.a.2" -> PyInt(3)]
        /\ structured = [k \in {"x"} |-> C10_Input.value]
        /\ result = None

C10_Witness == pc = "done" /\ args = C10_Input /\ "x.a.length" \in DOMAIN frame

\* the names declared by the tuple the value was flattened under
Declared == {args.name.v[i].v : i \in 1..Len(args.name.v)}

\* one call of store_recursive on a dict under a tuple of names has returned
TupleCase == pc = "done" /\ args.name.t = "tuple" /\ args.value.t = "dict"

\* what the flattened dict holds for the name n, None where it has no such key
Held(n) == IF n \in DOMAIN args.value.v THEN args.value.v[n] ELSE None

IsScalar(x) == x.t \in {"int", "str", "text", "bool"}

\* the Row columns of a list l flattened under the string name n
ListColumns(n, l) ==
    {Column(n, ".", "length")} \cup {Column(n, ".", ToString(i)) : i \in 0..(Len(l.v) - 1)}

---------------------------------------------------------------------------
(* handle_sample: the per-document loop over PARSERS.  The stage table is  *)
(* an input of the model: the program's PARSERS, and tables that declare   *)
(* one stage under a name of the wrong shape, the programmer error that    *)
(* store_recursive's checks are written for.                               *)

\* PARSERS with the authors stage ahead of the dates stage
PARSERS_AuthorsFirst ==
    << [name |-> PyStr("title"), f |-> "find_title"],
       [name |-> PyStr("authors"), f |-> "find_authors"],
       [name |-> PyTuple(<<PyStr("received"), PyStr("accepted"), PyStr("published")>>),
        f |-> "find_dates"] >>

PARSERS ==
    << [name |-> PyStr("title"), f |-> "find_title"],
       [name |-> PyTuple(<<PyStr("received"), PyStr("accepted"), PyStr("published")>>),
        f |-> "find_dates"],
       [name |-> PyStr("authors"), f |-> "find_authors"] >>

\* PARSERS with stage k declared under another name
Redeclared(k, name) == [PARSERS EXCEPT ![k].name = name]

ParserTables ==
    {PARSERS,
     Redeclared(1, PyTuple(<<PyStr("title"), PyStr("subtitle")>>)),
     Redeclared(2, PyStr("dates")),
     Redeclared(3, PyTuple(<<PyStr("authors"), PyStr("editors")>>))}

\* f(soup, context)
CallStage(f, soup, ctx) ==
    CASE f = "find_title" -> find_title(soup, ctx)
      [] f = "find_dates" -> find_dates(soup, ctx)
      [] f = "find_authors" -> find_authors(soup, ctx)

\* only InsufficientParser is caught by the loop
Caught_InsufficientOnly(exc) == exc = Raise("InsufficientParser")

\* the except clauses of the loop: InsufficientParser, then Exception, the
\* base of every exception a stage or store_recursive raises
Caught(exc) == exc = Raise("InsufficientParser") \/ IsRaise(exc)

\* a handler that records the failed stage's field as absent
Handled_Placeholder(st, name) ==
    [st EXCEPT !.structured =
        DictSet(@, IF name.t = "str" THEN name.v ELSE name.v[1].v, None)]

\* what a handler of the loop does to frame and structured: it only prints
Handled(st, name) == st

PipelineSpans == 3

Tag(name, attrs, text) == [name |-> name, attrs |-> attrs, text |-> text]

PipelineTags ==
    {Tag("span", Attrs("1", "", "16"), <<"Fast", "\n", "Graphs">>),
     Tag("span", Attrs("1", "", "abc"), <<"Fast", " ", "Graphs">>),
     Tag("span", Attrs("2", "", "16"), <<"Fast", " ", "Graphs">>),
     Tag("span", Attrs("1", "9", "10"),
         <<"Received", ":", " ", "12", " ", "/", " ", "accepted", ":", " ", "12">>),
     Tag("span", Attrs("1", "", "10"), <<"accepted", ":", " ", "12">>),
     Tag("span", Attrs("1", "9", "10"), <<"Received", ":", " ", "12", "/", "12">>),
     Tag("span", Attrs("1", "5", "12"), <<",", " ", "J.", " ", "Smith">>),
     Tag("span", Attrs("1", "9", "12"), <<"J.", " ", "Smith">>)}

PipelineDocuments ==
    {Document(Attrs("1", "", ""), Attrs("1", "", ""), tags) :
        tags \in [1..PipelineSpans -> PipelineTags]}

\* key + ".pdf"
DocumentName(key) == PyText(<<key, ".pdf">>)

Init ==
    /\ tree \in PipelineDocuments
    /\ args \in {[key |-> "doc", processed |-> TRUE, parsers |-> PARSERS]}
                  \cup {[key |-> "doc", processed |-> FALSE, parsers |-> t] :
                            t \in ParserTables}
    /\ pc = "start"
    /\ result = None
    /\ Unused

\* the output of an earlier run exists: nothing is done
Skip ==
    /\ pc = "start"
    /\ args.processed
    /\ pc' = "skipped"
    /\ result' = [key |-> args.key, frame |-> None, structured |-> None]
    /\ UNCHANGED <<tree, args, context, structured, frame, calls>>

Begin ==
    /\ pc = "start"
    /\ ~args.processed
    /\ frame' = EmptyDict
    /\ structured' = [k \in {"document"} |-> DocumentName(args.key)]
    /\ context' = EmptyDict
    /\ pc' = "loop"
    /\ UNCHANGED <<tree, args, result, calls>>

\* store_recursive(frame, structured, key, parser_name, name, f(soup, context)):
\* r is what the stage returned or raised, st0 the Row and Record before it
Stored(entry, r, st0) ==
    IF IsRaise(r.ret) THEN [st0 EXCEPT !.exc = r.ret]
    ELSE store_recursive(st0, entry.name, r.ret, FALSE, ".")

\* the rest of the iteration: a caught exception is handled and the loop goes
\* on; any other one leaves the loop for the handler of handle_sample
Continue(entry, r, st, handled) ==
    /\ context' = r.context
    /\ frame' = handled.frame
    /\ structured' = handled.structured
    /\ calls' = Append(calls, [f |-> entry.f, ret |-> r.ret, exc |-> st.exc])
    /\ IF IsRaise(st.exc) /\ ~Caught(st.exc)
       THEN /\ pc' = "failed"
            /\ result' = [key |-> args.key, frame |-> None, structured |-> None]
       ELSE UNCHANGED <<pc, result>>

Handle(entry, r, st) ==
    Continue(entry, r, st,
             IF IsRaise(st.exc) /\ Caught(st.exc) THEN Handled(st, entry.name) ELSE st)

Store(entry, r) ==
    Handle(entry, r,
           Stored(entry, r, [frame |-> frame, structured |-> structured, exc |-> None]))

\* one iteration of the loop over PARSERS.items()
Stage ==
    /\ pc = "loop"
    /\ Len(calls) < Len(args.parsers)
    /\ \E k \in {Len(calls) + 1} :
        Store(args.parsers[k], CallStage(args.parsers[k].f, tree, context))
    /\ UNCHANGED <<tree, args>>

Return ==
    /\ pc = "loop"
    /\ Len(calls) = Len(args.parsers)
    /\ pc' = "done"
    /\ result' = [key |-> args.key, frame |-> PyDict(frame), structured |-> PyDict(structured)]
    /\ UNCHANGED <<tree, args, context, structured, frame, calls>>

Next == Skip \/ Begin \/ Stage \/ Return

Spec == Init /\ [][Next]_vars

\* the stage functions called so far, in the order of the calls
Called == [k \in 1..Len(calls) |-> calls[k].f]

StageOrder == <<"find_title", "find_dates", "find_authors">>

\* stage k ended in a failure: the stage raised, or store_recursive did
Failed(k) == IsRaise(calls[k].exc)

\* stage k returned a value and store_recursive raised on it
FlattenFailed(k) == ~IsRaise(calls[k].ret) /\ IsRaise(calls[k].exc)

C2_FailureKeepsRecord ==
    /\ [][(Len(calls') = Len(calls) + 1 /\ IsRaise(calls'[Len(calls')].exc))
            => (structured' = structured /\ frame' = frame)]_vars
    /\ [](pc \in {"loop", "done", "failed"} =>
            /\ "document" \in DOMAIN structured
            /\ structured["document"] = DocumentName(args.key))

\* the dates stage failed on a segment without ":", the authors stage returned
\* a list that store_recursive refused under a tuple of names; the title
\* stored before them is all the Record and Row hold
C2_Witness ==
    /\ pc = "done"
    /\ calls[1].ret.t = "text"
    /\ calls[2].ret = Raise("IndexError")
    /\ FlattenFailed(3)
    /\ DOMAIN structured = {"document", "title"}
    /\ DOMAIN frame = {"title"}

\* the contract violation of store_recursive: a scalar under a non-string name
ContractViolation(k) == FlattenFailed(k) /\ calls[k].exc = Raise("Exception")

Written == {k \in DOMAIN context' : k \notin DOMAIN context \/ context'[k] # context[k]}

\* the context keys a stage may write
Contributes(f) ==
    CASE f = "find_title" -> {"title-size"}
      [] f = "find_dates" -> {"date-start", "date-size"}
      [] f = "find_authors" -> {}

\* C14: in a run under the program's PARSERS, a stage that ends in
\* insufficient evidence or in any other failure leaves the context exactly as it was before it ran; the title stage writes
\* only title-size, the dates stage only date-start and date-size, and the
\* authors stage writes no context key.
C14_ContextOnSuccess ==
    [][(args.parsers = PARSERS /\ Len(calls') = Len(calls) + 1) =>
        /\ IsRaise(calls'[Len(calls')].exc) => context' = context
        /\ DOMAIN context \subseteq DOMAIN context'
        /\ Written \subseteq Contributes(calls'[Len(calls')].f)]_vars

\* C15: in a run under the program's PARSERS, no key of the Record maps to
\* None, while the loop runs and in the Record returned; a phase that the
\* matched date line does not name has no key in the Record.
C15_NoNoneInRecord ==
    (args.parsers = PARSERS /\ pc \in {"loop", "done"}) =>
        /\ \A k \in DOMAIN structured : structured[k] # None
        /\ pc = "done" => \A k \in DOMAIN result.structured.v : result.structured.v[k] # None

\* C16: in a run under the program's PARSERS, a Record that holds authors
\* also holds title, and the context holds title-size, date-start and
\* date-size, each an integer: the title stage returned its string and the
\* dates stage found a date marker.
C16_AuthorsNeedBounds ==
    (args.parsers = PARSERS /\ pc \in {"loop", "done"} /\ "authors" \in DOMAIN structured) =>
        /\ "title" \in DOMAIN structured
        /\ \A k \in {"title-size", "date-start", "date-size"} :
              k \in DOMAIN context /\ context[k].t = "int"
        /\ calls[1].ret.t = "text"
        /\ calls[2].ret # Raise("InsufficientParser")

\* a returned Record with title, dates and authors
C16_Witness ==
    /\ args.parsers = PARSERS
    /\ pc = "done"
    /\ {"title", "received", "authors"} \subseteq DOMAIN result.structured.v
    /\ context["date-start"] = PyInt(9)

---------------------------------------------------------------------------
(* Two invocations of handle_sample over two distinct documents, as the    *)
(* workers of run's ProcessPoolExecutor make them, interleaved at the      *)
(* grain of one loop iteration.  Every variable is held per invocation;    *)
(* frame, structured and context are cells of a store, and an invocation   *)
(* works on the cell its own assignments made.                             *)

Workers == {1, 2}

\* one store cell for every invocation
Local_Shared(w) == 1

\* frame = pd.DataFrame(), structured = {...}, context = {}: the objects an
\* invocation works on are the ones it created itself
Local(w) == w

PairTags ==
    {Tag("span", Attrs("1", "", "16"), <<"Fast", "\n", "Graphs">>),
     Tag("span", Attrs("1", "9", "10"),
         <<"Received", ":", " ", "12", " ", "/", " ", "accepted", ":", " ", "12">>),
     Tag("span", Attrs("1", "5", "12"), <<",", " ", "J.", " ", "Smith">>)}

PairSpans == 2

PairDocuments ==
    {Document(Attrs("1", "", ""), Attrs("1", "", ""), tags) :
        tags \in [1..PairSpans -> PairTags]}

\* os.path.splitext(os.path.basename(path))[0] of the document of invocation w
KeyOf(w) == IF w = 1 THEN "doc1" ELSE "doc2"

InitPair ==
    /\ tree \in {t \in [Workers -> PairDocuments] : t[1] # t[2]}
    /\ args \in {a \in [Workers -> [key : {"doc1", "doc2"}, processed : BOOLEAN,
                                    parsers : {PARSERS}]] :
                    \A w \in Workers : a[w].key = KeyOf(w)}
    /\ pc = [w \in Workers |-> "start"]
    /\ result = [w \in Workers |-> None]
    /\ context = [w \in Workers |-> EmptyDict]
    /\ structured = [w \in Workers |-> EmptyDict]
    /\ frame = [w \in Workers |-> EmptyDict]
    /\ calls = [w \in Workers |-> <<>>]

PairSkip(w) ==
    /\ pc[w] = "start"
    /\ args[w].processed
    /\ pc' = [pc EXCEPT ![w] = "skipped"]
    /\ result' = [result EXCEPT ![w] = [key |-> args[w].key, frame |-> None, structured |-> None]]
    /\ UNCHANGED <<tree, args, context, structured, frame, calls>>

PairBegin(w) ==
    /\ pc[w] = "start"
    /\ ~args[w].processed
    /\ frame' = [frame EXCEPT ![Local(w)] = EmptyDict]
    /\ structured' = [structured EXCEPT ![Local(w)] =
                        [k \in {"document"} |-> DocumentName(args[w].key)]]
    /\ context' = [context EXCEPT ![Local(w)] = EmptyDict]
    /\ pc' = [pc EXCEPT ![w] = "loop"]
    /\ UNCHANGED <<tree, args, result, calls>>

PairContinue(w, entry, r, st, handled) ==
    /\ context' = [context EXCEPT ![Local(w)] = r.context]
    /\ frame' = [frame EXCEPT ![Local(w)] = handled.frame]
    /\ structured' = [structured EXCEPT ![Local(w)] = handled.structured]
    /\ calls' = [calls EXCEPT ![w] = Append(@, [f |-> entry.f, ret |-> r.ret, exc |-> st.exc])]
    /\ IF IsRaise(st.exc) /\ ~Caught(st.exc)
       THEN /\ pc' = [pc EXCEPT ![w] = "failed"]
            /\ result' = [result EXCEPT ![w] =
                            [key |-> args[w].key, frame |-> None, structured |-> None]]
       ELSE UNCHANGED <<pc, result>>

PairHandle(w, entry, r, st) ==
    PairContinue(w, entry, r, st,
                 IF IsRaise(st.exc) /\ Caught(st.exc) THEN Handled(st, entry.name) ELSE st)

PairStore(w, entry, r) ==
    PairHandle(w, entry, r,
               Stored(entry, r, [frame |-> frame[Local(w)],
                                 structured |-> structured[Local(w)], exc |-> None]))

\* one iteration of the loop of invocation w
PairStage(w) ==
    /\ pc[w] = "loop"
    /\ Len(calls[w]) < Len(args[w].parsers)
    /\ \E k \in {Len(calls[w]) + 1} :
        PairStore(w, args[w].parsers[k],
                  CallStage(args[w].parsers[k].f, tree[w], context[Local(w)]))
    /\ UNCHANGED <<tree, args>>

PairReturn(w) ==
    /\ pc[w] = "loop"
    /\ Len(calls[w]) = Len(args[w].parsers)
    /\ pc' = [pc EXCEPT ![w] = "done"]
    /\ result' = [result EXCEPT ![w] =
                    [key |-> args[w].key, frame |-> PyDict(frame[Local(w)]),
                     structured |-> PyDict(structured[Local(w)])]]
    /\ UNCHANGED <<tree, args, context, structured, frame, calls>>

NextPair ==
    \E w \in Workers : PairSkip(w) \/ PairBegin(w) \/ PairStage(w) \/ PairReturn(w)

SpecPair == InitPair /\ [][NextPair]_vars

\* the cells of a document processed alone, after the stages before it
SoloStart(key) ==
    [context |-> EmptyDict, frame |-> EmptyDict,
     structured |-> [k \in {"document"} |-> DocumentName(key)]]

SoloStored(r, st) ==
    [context |-> r.context, frame |-> st.frame, structured |-> st.structured]

SoloCalled(entry, r, s) ==
    SoloStored(r, Stored(entry, r, [frame |-> s.frame, structured |-> s.structured,
                                    exc |-> None]))

SoloStep(entry, soup, s) == SoloCalled(entry, CallStage(entry.f, soup, s.context), s)

\* context, Row and Record of the document soup processed alone, after n stages
RECURSIVE Solo(_, _, _)
Solo(soup, key, n) ==
    IF n = 0 THEN SoloStart(key)
    ELSE SoloStep(PARSERS[n], soup, Solo(soup, key, n - 1))

\* C13: two invocations over distinct documents, interleaved in any way,
\* share no state: after every step the context, Row and Record of each
\* invocation are those of its document processed alone up to the same
\* stage, and what it returns is what it returns alone.
C13_NoSharedState ==
    \A w \in Workers :
        /\ pc[w] \in {"loop", "done"} =>
              LET alone == Solo(tree[w], args[w].key, Len(calls[w])) IN
              /\ context[w] = alone.context
              /\ frame[w] = alone.frame
              /\ structured[w] = alone.structured
        /\ pc[w] = "done" =>
              LET alone == Solo(tree[w], args[w].key, Len(PARSERS)) IN
              result[w] = [key |-> args[w].key, frame |-> PyDict(alone.frame),
                           structured |-> PyDict(alone.structured)]

\* the two invocations are in the middle of their loops, the first ahead of
\* the second; the first has found a title and dates, the second, whose
\* document has no title, holds a context without title-size
C13_Witness ==
    /\ pc[1] = "loop" /\ Len(calls[1]) = 2
    /\ pc[2] = "loop" /\ Len(calls[2]) = 1
    /\ DOMAIN context[1] = {"title-size", "date-start", "date-size"}
    /\ DOMAIN context[2] = {}
    /\ "title" \in DOMAIN structured[1]
    /\ "title" \notin DOMAIN structured[2]

====
